---- MODULE Spec2Model ----
(***************************************************************************)
(* A model of cpac-log-muncher (clmunch): the line scan of                 *)
(* CpacRun.from_log_file, the construction and the report of               *)
(* CpacRunCollection, and utils.unique_substrings.                         *)
(*                                                                         *)
(* Python strings are sequences of one-character strings, so that slicing, *)
(* substring search, lower-casing and comparison are computed and not      *)
(* assumed.  An optional value (x | None) is <<>> for None and <<x>>       *)
(* otherwise.                                                              *)
(***************************************************************************)
EXTENDS Integers, Sequences, FiniteSets, TLC

VARIABLES
    \* CpacRun.from_log_file: the locals of the scan and the record being built
    run, min_time, max_time, cpac_success, cpac_error, log_text, pc,
    \* CpacRunCollection: the directory tree, the listing order, the runs, the report
    fs, runs, report, cpc,
    \* utils.unique_substrings: the argument, the loop index, the returned list
    strings, i, result, upc

vars == <<run, min_time, max_time, cpac_success, cpac_error, log_text, pc,
          fs, runs, report, cpc, strings, i, result, upc>>

scan_vars == <<run, min_time, max_time, cpac_success, cpac_error, log_text, pc>>
coll_vars == <<fs, runs, report, cpc>>
uniq_vars == <<strings, i, result, upc>>

-----------------------------------------------------------------------------
(* Optional values and strings *)

None == <<>>
Some(x) == <<x>>
IsNone(o) == o = <<>>
Get(o) == o[1]

\* The characters the model uses, in code-point order.
Alphabet == <<" ", "-", ".", "/", "1", "2", "3", "B", "F", "N", "S", "T",
              "_", "a", "b", "c", "d", "e", "f", "g", "h", "i", "l", "n",
              "o", "p", "r", "s", "t", "x", "y">>

Ord(c) == CHOOSE k \in 1..Len(Alphabet) : Alphabet[k] = c

RECURSIVE Join(_, _)
Join(sep, ss) ==
    IF ss = <<>> THEN <<>>
    ELSE IF Len(ss) = 1 THEN ss[1]
    ELSE ss[1] \o sep \o Join(sep, Tail(ss))

\* s[k:] of Python, k >= 0
Drop(s, k) == SubSeq(s, k + 1, Len(s))

StartsWith(s, p) == Len(p) <= Len(s) /\ SubSeq(s, 1, Len(p)) = p
EndsWith(s, p) == Len(p) <= Len(s) /\ SubSeq(s, Len(s) - Len(p) + 1, Len(s)) = p
Contains(s, p) == \E k \in 0..(Len(s) - Len(p)) : SubSeq(s, k + 1, k + Len(p)) = p

\* Python's < on str: lexicographic by code point, a proper prefix is smaller.
RECURSIVE StrLess(_, _)
StrLess(a, b) ==
    IF b = <<>> THEN FALSE
    ELSE IF a = <<>> THEN TRUE
    ELSE IF Head(a) = Head(b) THEN StrLess(Tail(a), Tail(b))
    ELSE Ord(Head(a)) < Ord(Head(b))

-----------------------------------------------------------------------------
(* String constants of the program and of the inputs *)

S_test_config == <<" ", "t", "e", "s", "t", "_", "c", "o", "n", "f", "i", "g", " ">>
S_preconfig == <<"-", "-", "p", "r", "e", "c", "o", "n", "f", "i", "g">>
S_None == <<"N", "o", "n", "e">>
S_pypeline == <<"p", "y", "p", "e", "l", "i", "n", "e">>
S_dot_log == <<".", "l", "o", "g">>
S_failedToStart == <<"f", "a", "i", "l", "e", "d", "T", "o", "S", "t", "a", "r", "t", ".", "l", "o", "g">>
S_crash == <<"c", "r", "a", "s", "h", "-">>
S_dot_txt == <<".", "t", "x", "t">>
S_slash == <<"/">>

\* Input strings: values a log line can carry.
S_Foo == <<"F", "o", "o">>
S_ver == <<"1", ".", "2">>
S_sub == <<"s", "1">>

\* Input commands (the text captured from a "Run command: ..." line).
Cmd_empty == <<>>
Cmd_plain == <<"r", "u", "n">>
Cmd_test == <<"r", "u", "n", " ", "t", "e", "s", "t", "_", "c", "o", "n", "f", "i", "g", " ", "x">>
Cmd_test_last == <<"r", "u", "n", " ", "t", "e", "s", "t", "_", "c", "o", "n", "f", "i", "g">>
Cmd_pre == <<"r", "u", "n", " ", "-", "-", "p", "r", "e", "c", "o", "n", "f", "i", "g", " ", "b", "a", "r">>
Cmd_pre_only == <<"r", "u", "n", " ", "-", "-", "p", "r", "e", "c", "o", "n", "f", "i", "g", " ">>
Cmd_pre_test == <<"-", "-", "p", "r", "e", "c", "o", "n", "f", "i", "g", " ", " ", "b", "a", "r", " ", "t", "e", "s", "t", "_", "c", "o", "n", "f", "i", "g", " ", "x">>
Commands == {Cmd_empty, Cmd_plain, Cmd_test, Cmd_test_last, Cmd_pre, Cmd_pre_only,
             Cmd_pre_test}

-----------------------------------------------------------------------------
(* Log lines.  A line is the first pattern of the elif chain of            *)
(* from_log_file that matches it, with the text the pattern captures:      *)
(*   ts      RX_TIMESTAMP, n the parsed stamp                              *)
(*   cmd     RX_CPAC_COMMAND, v the command                                *)
(*   ver     RX_CPAC_VERSION, pcfg RX_CPAC_END_PIPELINE_CONFIG,            *)
(*   subj    RX_CPAC_END_SUBJECT_WORKFLOW                                  *)
(*   succ    RC_CPAC_END_SUCCESS, succ_tc RC_CPAC_END_SUCCESS_TEST_CONFIG  *)
(*   err     RC_CPAC_END_ERROR                                             *)
(*   lookup  no line pattern; text that RXS_CPAC_ERROR_LOOKUP[n] finds     *)
(*   other   no pattern                                                    *)
(* The patterns are anchored on different literals, so a line matches at   *)
(* most one of them.                                                       *)
(***************************************************************************)

MaxTime == 2
MaxLines == 3

\* n: the stamp of a ts line, the variant of a lookup text; v: the captured text
Line(k, n, v) == [kind |-> k, n |-> n, v |-> v]

Lines ==
    {Line("ts", t, <<>>) : t \in 0..MaxTime}
    \cup {Line("cmd", 0, c) : c \in Commands}
    \cup {Line("ver", 0, S_ver), Line("subj", 0, S_sub)}
    \cup {Line("pcfg", 0, S_Foo), Line("pcfg", 0, <<>>)}
    \cup {Line("succ", 0, <<>>), Line("succ_tc", 0, <<>>), Line("err", 0, <<>>)}
    \cup {Line("lookup", 1, <<>>), Line("lookup", 3, <<>>)}
    \cup {Line("other", 0, <<>>)}

-----------------------------------------------------------------------------
(* Paths: a path is the sequence of its components below the search root;  *)
(* the directory tree fs maps each file of the tree to its content (the    *)
(* lines of a log, <<>> for any other file).                               *)

Parent(path) == SubSeq(path, 1, Len(path) - 1)
Name(path) == path[Len(path)]

\* str(log_file.relative_to(base_dir)); base_dir is the search root (main)
RelativeStr(path) == Join(S_slash, path)

\* The search root as the user typed it, and str(file) of a file below it
S_root == <<"/", "d">>
FileStr(path) == S_root \o S_slash \o RelativeStr(path)

IsLogName(n) == StartsWith(n, S_pypeline) /\ EndsWith(n, S_dot_log)
IsCrashName(n) ==
    /\ StartsWith(n, S_crash) /\ EndsWith(n, S_dot_txt)
    /\ Len(n) >= Len(S_crash) + Len(S_dot_txt)

\* root.glob("**/pypeline*.log"), as a set; the listing order is an input
find_log_files(tree) == {f \in DOMAIN tree : IsLogName(Name(f))}

\* root.glob("**/failedToStart.log")
find_failed_to_start_files(tree) == {f \in DOMAIN tree : Name(f) = S_failedToStart}

\* log_file.parent.glob("../../crash-*.txt"): the directory two levels above
\* the log's directory; above the search root the model holds no file
find_crash_files(tree, log_file) ==
    IF Len(log_file) < 3 THEN {}
    ELSE {f \in DOMAIN tree :
            /\ Parent(f) = Parent(Parent(Parent(log_file)))
            /\ IsCrashName(Name(f))}

\* The sequences that list the set S once each (list(glob) in some order)
Listings(S) ==
    {l \in [1..Cardinality(S) -> S] : \A a, b \in 1..Cardinality(S) : l[a] = l[b] => a = b}

-----------------------------------------------------------------------------
(* CpacRun *)

\* cls(base_dir, file): the dataclass defaults
NewRun(file) ==
    [file |-> file, command |-> None, test_config |-> None, version |-> None,
     pipeline_config |-> None, subject_workflow |-> None, error_info |-> None,
     start |-> None, diff |-> None, success |-> FALSE, crashfiles |-> None]

from_failed_to_start_file(failed_to_start_file) == NewRun(failed_to_start_file)

\* the locals of from_log_file before the loop
InitLocals(log_file) ==
    [run |-> NewRun(log_file), min_time |-> None, max_time |-> None,
     cpac_success |-> FALSE, cpac_error |-> FALSE, log_text |-> <<>>]

\* mutant: the first stamp is taken for the least
UpdateMin_KeepsFirst(mn, stamp) == IF IsNone(mn) THEN Some(stamp) ELSE mn

UpdateMin(mn, stamp) == IF IsNone(mn) \/ stamp < Get(mn) THEN Some(stamp) ELSE mn
UpdateMax(mx, stamp) == IF IsNone(mx) \/ stamp > Get(mx) THEN Some(stamp) ELSE mx

\* " test_config " in run.command
TestConfigOf(command) == Contains(command, S_test_config)

\* mutant: the build-only marker counts whatever test_config is
SuccessMatch_AnyVariant(test_config, line) == line.kind \in {"succ", "succ_tc"}

\* the condition of the success branch: the plain marker, or the build-only
\* marker when run.test_config is truthy (None and False are not)
SuccessMatch(test_config, line) ==
    \/ line.kind = "succ"
    \/ (test_config = Some(TRUE) /\ line.kind = "succ_tc")

\* one iteration of the while loop: log_text += line, then the elif chain
ScanLine(st, line) ==
    LET st1 == [st EXCEPT !.log_text = Append(@, line)] IN
    IF line.kind = "ts" THEN
        [st1 EXCEPT !.min_time = UpdateMin(@, line.n), !.max_time = UpdateMax(@, line.n)]
    ELSE IF line.kind = "cmd" THEN
        [st1 EXCEPT !.run.command = Some(line.v),
                    !.run.test_config = Some(TestConfigOf(line.v))]
    ELSE IF line.kind = "ver" THEN [st1 EXCEPT !.run.version = Some(line.v)]
    ELSE IF line.kind = "pcfg" THEN [st1 EXCEPT !.run.pipeline_config = Some(line.v)]
    ELSE IF line.kind = "subj" THEN [st1 EXCEPT !.run.subject_workflow = Some(line.v)]
    ELSE IF SuccessMatch(st.run.test_config, line) THEN [st1 EXCEPT !.cpac_success = TRUE]
    ELSE IF line.kind = "err" THEN [st1 EXCEPT !.cpac_error = TRUE]
    ELSE st1

\* re.search(RXS_CPAC_ERROR_LOOKUP[rx], log_text): the leftmost match
LookupMatches(text, rx) ==
    {k \in 1..Len(text) : text[k].kind = "lookup" /\ text[k].n = rx}

\* the loop over RXS_CPAC_ERROR_LOOKUP, run when cpac_error or not cpac_success
ErrorInfo(st) ==
    IF ~(st.cpac_error \/ ~st.cpac_success) THEN None
    ELSE LET hit == {rx \in 1..3 : LookupMatches(st.log_text, rx) # {}} IN
         IF hit = {} THEN None
         ELSE LET rx == CHOOSE r \in hit : \A r2 \in hit : r <= r2
                  at == CHOOSE k \in LookupMatches(st.log_text, rx) :
                            \A k2 \in LookupMatches(st.log_text, rx) : k <= k2
              IN Some([rx |-> rx, at |-> at, pipeline_config |-> None])

\* RX_CPAC_PIPELINE_CONFIG_COMMAND_FALLBACK = --preconfig\s*(\S+) tried at k:
\* the literal, then the blanks, then the longest run of non-blanks
PreconfigAt(command, k) ==
    LET after == k + Len(S_preconfig)
        nonblank == {j \in after..Len(command) : command[j] # " "}
    IN IF ~StartsWith(Drop(command, k - 1), S_preconfig) \/ nonblank = {} THEN None
       ELSE LET j == CHOOSE x \in nonblank : \A y \in nonblank : x <= y
                blanks == {e \in j..Len(command) : command[e] = " "}
                stop == IF blanks = {} THEN Len(command)
                        ELSE (CHOOSE x \in blanks : \A y \in blanks : x <= y) - 1
            IN Some(SubSeq(command, j, stop))

\* fb.group(1) if (fb := re.search(...)) else None
PreconfigFallback(command) ==
    LET at == {k \in 1..Len(command) : ~IsNone(PreconfigAt(command, k))} IN
    IF at = {} THEN None
    ELSE PreconfigAt(command, CHOOSE k \in at : \A k2 \in at : k <= k2)

\* mutant: no fallback to the file name
ResolvePipelineConfig_NoPath(pipeline_config, command, log_file) ==
    IF IsNone(pipeline_config) /\ ~IsNone(command)
    THEN PreconfigFallback(Get(command)) ELSE pipeline_config

\* "fallback to command line argument or filename"
ResolvePipelineConfig(pipeline_config, command, log_file) ==
    LET c1 == IF IsNone(pipeline_config) /\ ~IsNone(command)
              THEN PreconfigFallback(Get(command)) ELSE pipeline_config
    IN IF IsNone(c1) THEN Some(RelativeStr(log_file)) ELSE c1

\* max_time - min_time when both are set
Diff(mx, mn) == IF ~IsNone(mx) /\ ~IsNone(mn) THEN Some(Get(mx) - Get(mn)) ELSE None

\* mutant: the error flag is not consulted
FinalSuccess_IgnoresError(cs, ce) == cs

\* run.success = cpac_success and not cpac_error
FinalSuccess(cs, ce) == cs /\ ~ce

\* from_log_file after the loop; crash is list(find_crash_files(log_file))
FinishRun(st, crash) ==
    LET config == ResolvePipelineConfig(st.run.pipeline_config, st.run.command, st.run.file)
        info == ErrorInfo(st)
    IN [st.run EXCEPT
           !.error_info = IF IsNone(info) THEN None
                          ELSE Some([Get(info) EXCEPT !.pipeline_config = config]),
           !.diff = Diff(st.max_time, st.min_time),
           !.start = st.min_time,
           !.pipeline_config = config,
           !.crashfiles = Some(crash),
           !.success = FinalSuccess(st.cpac_success, st.cpac_error)]

RECURSIVE ScanAll(_, _)
ScanAll(st, lines) ==
    IF lines = <<>> THEN st ELSE ScanAll(ScanLine(st, Head(lines)), Tail(lines))

\* CpacRun.from_log_file on a file of the tree
from_log_file(tree, log_file, crash) ==
    FinishRun(ScanAll(InitLocals(log_file), tree[log_file]), crash)

-----------------------------------------------------------------------------
(* File names of the inputs *)

N_log == <<"p", "y", "p", "e", "l", "i", "n", "e", ".", "l", "o", "g">>
N_log2 == <<"p", "y", "p", "e", "l", "i", "n", "e", "_", "2", ".", "l", "o", "g">>
N_crash == <<"c", "r", "a", "s", "h", "-", "1", ".", "t", "x", "t">>
D_a == <<"a">>
D_B == <<"B">>
D_l == <<"l">>

-----------------------------------------------------------------------------
(* ScanSpec: CpacRun.from_log_file(ScanFile, root), one line at a time.    *)
(* The lines of the file are drawn as readline returns them; fs holds the  *)
(* files around it.                                                        *)

ScanFile == <<D_B, D_l, N_log>>
ScanTree == (ScanFile :> <<>>) @@ (<<N_crash>> :> <<>>) @@ (<<D_B, N_crash>> :> <<>>)

Locals ==
    [run |-> run, min_time |-> min_time, max_time |-> max_time,
     cpac_success |-> cpac_success, cpac_error |-> cpac_error, log_text |-> log_text]

SetLocals(st) ==
    /\ run' = st.run
    /\ min_time' = st.min_time
    /\ max_time' = st.max_time
    /\ cpac_success' = st.cpac_success
    /\ cpac_error' = st.cpac_error
    /\ log_text' = st.log_text

CollIdle == fs = ScanTree /\ runs = <<>> /\ report = None /\ cpc = "idle"
UniqIdle == strings = <<>> /\ i = 0 /\ result = None /\ upc = "idle"

ScanInit ==
    /\ run = InitLocals(ScanFile).run
    /\ min_time = InitLocals(ScanFile).min_time
    /\ max_time = InitLocals(ScanFile).max_time
    /\ cpac_success = InitLocals(ScanFile).cpac_success
    /\ cpac_error = InitLocals(ScanFile).cpac_error
    /\ log_text = InitLocals(ScanFile).log_text
    /\ pc = "scan"
    /\ CollIdle
    /\ UniqIdle

\* while line := f.readline(): one iteration
ReadLine ==
    /\ pc = "scan"
    /\ Len(log_text) < MaxLines
    /\ \E line \in Lines : SetLocals(ScanLine(Locals, line))
    /\ UNCHANGED <<pc, coll_vars, uniq_vars>>

\* readline returns "": the rest of from_log_file
EndOfFile ==
    /\ pc = "scan"
    /\ \E crash \in Listings(find_crash_files(fs, run.file)) :
          run' = FinishRun(Locals, crash)
    /\ pc' = "done"
    /\ UNCHANGED <<min_time, max_time, cpac_success, cpac_error, log_text,
                   coll_vars, uniq_vars>>

ScanNext == ReadLine \/ EndOfFile

ScanSpec == ScanInit /\ [][ScanNext]_vars

-----------------------------------------------------------------------------
(* What a log contains, read off the scanned text alone *)

Indices(text, kind) == {k \in 1..Len(text) : text[k].kind = kind}
Last(S) == CHOOSE k \in S : \A k2 \in S : k2 <= k

\* the 'Run command:' line scanned most recently before line k carries the
\* test-configuration marker
MarkerActiveBefore(text, k) ==
    LET cmds == {j \in Indices(text, "cmd") : j < k} IN
    cmds # {} /\ Contains(text[Last(cmds)].v, S_test_config)

\* a success marker in force: the plain one, or the build-only one scanned
\* while the test-configuration marker is active
SuccessMarkerAt(text, k) ==
    \/ text[k].kind = "succ"
    \/ (text[k].kind = "succ_tc" /\ MarkerActiveBefore(text, k))

SuccessMarkerSeen(text) == \E k \in 1..Len(text) : SuccessMarkerAt(text, k)
ErrorMarkerSeen(text) == Indices(text, "err") # {}

Stamps(text) == {text[k].n : k \in Indices(text, "ts")}
MinOf(S) == CHOOSE x \in S : \A y \in S : x <= y
MaxOf(S) == CHOOSE x \in S : \A y \in S : y <= x

\* C1: when from_log_file returns, success is true exactly when a success
\* marker was scanned and no 'CPAC run error:' line was scanned, in whatever
\* order the lines come; so success implies that the log holds no error marker.
C1_SuccessIffMarkerAndNoError ==
    pc = "done" =>
        /\ run.success = (SuccessMarkerSeen(log_text) /\ ~ErrorMarkerSeen(log_text))
        /\ (run.success => ~ErrorMarkerSeen(log_text))

\* a returned record of a log whose error marker precedes its success marker
C1_Witness ==
    /\ pc = "done"
    /\ \E e \in Indices(log_text, "err") : \E k \in Indices(log_text, "succ") : e < k
    /\ run.success = FALSE

\* C2: the pipeline_config of the returned record is the first non-empty of
\* (a) the value of the 'Pipeline configuration:' line, (b) the token after
\* --preconfig in the stored command, (c) the path relative to the base directory.
C2_FirstNonEmpty ==
    pc = "done" =>
        LET a == IF Indices(log_text, "pcfg") = {} THEN <<>>
                 ELSE log_text[Last(Indices(log_text, "pcfg"))].v
            fb == IF IsNone(run.command) THEN None ELSE PreconfigFallback(Get(run.command))
            b == IF IsNone(fb) THEN <<>> ELSE Get(fb)
            c == RelativeStr(run.file)
        IN run.pipeline_config = Some(IF a # <<>> THEN a ELSE IF b # <<>> THEN b ELSE c)

\* C7: when from_log_file returns, start is the least stamp scanned and diff
\* the greatest minus the least, so diff is never negative; with no stamp in
\* the log both are absent.  The order of the stamps does not matter.
C7_StartAndDuration ==
    pc = "done" =>
        IF Stamps(log_text) = {}
        THEN run.start = None /\ run.diff = None
        ELSE /\ run.start = Some(MinOf(Stamps(log_text)))
             /\ run.diff = Some(MaxOf(Stamps(log_text)) - MinOf(Stamps(log_text)))
             /\ Get(run.diff) >= 0

\* a returned record of a log whose stamps decrease somewhere
C7_Witness ==
    /\ pc = "done"
    /\ \E j, k \in Indices(log_text, "ts") : j < k /\ log_text[j].n > log_text[k].n
    /\ ~IsNone(run.diff) /\ Get(run.diff) > 0

\* C9: the step of the scan that reads a build-only success line sets the
\* success flag exactly when test_config is true at that moment, which is when
\* the command line scanned most recently before it carries the marker;
\* otherwise the flag keeps its value, whatever command line comes later.
C9_BuildOnlyNeedsTestConfigNow ==
    [][(/\ pc = "scan"
        /\ Len(log_text') = Len(log_text) + 1
        /\ log_text'[Len(log_text')].kind = "succ_tc")
       => /\ (run.test_config = Some(TRUE)) = MarkerActiveBefore(log_text', Len(log_text'))
          /\ cpac_success' = (cpac_success \/ run.test_config = Some(TRUE))]_vars

\* a build-only success line scanned before the command line that sets
\* test_config: the flag is still false after that command line
C9_Witness ==
    /\ pc = "scan"
    /\ \E k \in Indices(log_text, "succ_tc") : \E j \in Indices(log_text, "cmd") :
          /\ k < j
          /\ ~MarkerActiveBefore(log_text, k)
    /\ run.test_config = Some(TRUE)
    /\ cpac_success = FALSE

-----------------------------------------------------------------------------
(* UniqSpec: utils.unique_substrings(strings), one loop iteration at a     *)
(* time, on every list the two asserts let through.                        *)

MaxStrLen == 3
MaxList == 3

UniqChars == {"a", "b"}
UniqStrings == UNION {[1..n -> UniqChars] : n \in 1..MaxStrLen}

\* len(set(l)) == len(l)
AllDistinct(l) == \A a, b \in 1..Len(l) : l[a] = l[b] => a = b

\* the arguments of test_unique_substrings
TestInputs ==
    {<<<<"a">>, <<"b">>, <<"c">>>>,
     <<<<"a">>, <<"b">>, <<"a", "b">>>>,
     <<<<"a">>, <<"b">>, <<"b", "a">>>>,
     <<<<"a">>, <<"b">>, <<"b", "a">>, <<"a", "b">>>>,
     <<<<"a", "a">>, <<"b", "a">>>>,
     <<<<"a">>, <<"a", "a">>>>,
     <<<<"a", "a">>, <<"a">>>>,
     <<<<"a", "1", "2", "3">>, <<"b", "1", "2", "3">>, <<"c", "1", "2", "3">>>>}

UniqInputs ==
    {l \in UNION {[1..n -> UniqStrings] : n \in 1..MaxList} : AllDistinct(l)}
    \cup TestInputs

\* max(len(x) for x in strings)
MaxLenOf(l) == MaxOf({Len(l[k]) : k \in 1..Len(l)})

\* mutant: the strings are cut at the end, [s[:-k] for s in strings]
NewStrings_Prefix(l, k) == [j \in 1..Len(l) |-> SubSeq(l[j], 1, Len(l[j]) - k)]

\* [s[k:] for s in strings]
NewStrings(l, k) == [j \in 1..Len(l) |-> Drop(l[j], k)]

ScanIdle ==
    /\ run = NewRun(ScanFile) /\ min_time = None /\ max_time = None
    /\ cpac_success = FALSE /\ cpac_error = FALSE /\ log_text = <<>> /\ pc = "idle"

UniqInit ==
    /\ strings \in UniqInputs
    /\ i = 1
    /\ result = None
    /\ upc = "loop"
    /\ ScanIdle
    /\ CollIdle

\* an iteration whose new_strings are unique: return new_strings
LoopReturn ==
    /\ upc = "loop"
    /\ i < MaxLenOf(strings)
    /\ AllDistinct(NewStrings(strings, i))
    /\ result' = Some(NewStrings(strings, i))
    /\ upc' = "done"
    /\ UNCHANGED <<strings, i, scan_vars, coll_vars>>

\* an iteration whose new_strings collide: the next i
LoopNext ==
    /\ upc = "loop"
    /\ i < MaxLenOf(strings)
    /\ ~AllDistinct(NewStrings(strings, i))
    /\ i' = i + 1
    /\ UNCHANGED <<strings, result, upc, scan_vars, coll_vars>>

\* range(1, max_len) is exhausted: return strings
ReturnStrings ==
    /\ upc = "loop"
    /\ i >= MaxLenOf(strings)
    /\ result' = Some(strings)
    /\ upc' = "done"
    /\ UNCHANGED <<strings, i, scan_vars, coll_vars>>

UniqNext == LoopReturn \/ LoopNext \/ ReturnStrings

UniqSpec == UniqInit /\ [][UniqNext]_vars

FirstCharOnly(l) ==
    /\ \A a, b \in 1..Len(l) : Len(l[a]) = Len(l[b]) /\ Tail(l[a]) = Tail(l[b])
    /\ \A a, b \in 1..Len(l) : Head(l[a]) = Head(l[b]) => a = b

\* C5: for strings of one length that differ pairwise in the first character
\* and are otherwise the same, the returned list is the list of the first
\* characters: <<"aa", "ba">> gives <<"a", "b">>.
C5_ShortenedToFirstChars ==
    upc = "done" /\ FirstCharOnly(strings) =>
        Get(result) = [j \in 1..Len(strings) |-> <<Head(strings[j])>>]

\* C6: no returned string is empty, and an argument that holds a string of
\* length 1 is returned as it is: <<"a", "aa">> gives <<"a", "aa">>.
C6_NeverEmpty ==
    upc = "done" =>
        /\ \A j \in 1..Len(Get(result)) : Len(Get(result)[j]) >= 1
        /\ ((\E j \in 1..Len(strings) : Len(strings[j]) = 1) => Get(result) = strings)

-----------------------------------------------------------------------------
(* CpacRunCollection *)

\* mutant: no failed-to-start file is dropped
runs_failed_to_start_All(files_fts, files_log) == files_fts

\* [f for f in files_fts if not any(f.parent == f2.parent for f2 in files_log)]
runs_failed_to_start(files_fts, files_log) ==
    SelectSeq(files_fts, LAMBDA f : ~(\E f2 \in files_log : Parent(f) = Parent(f2)))

\* the sort key (x.pipeline_config is None, x.pipeline_config), compared as
\* Python compares tuples: False < True, then the strings
KeyLess(a, b) ==
    IF IsNone(a.pipeline_config) # IsNone(b.pipeline_config)
    THEN IsNone(b.pipeline_config)
    ELSE IF IsNone(a.pipeline_config) THEN FALSE
    ELSE StrLess(Get(a.pipeline_config), Get(b.pipeline_config))

\* list.sort is stable: r, which came later, goes after the records not greater
RECURSIVE Insert(_, _)
Insert(sorted, r) ==
    IF sorted = <<>> THEN <<r>>
    ELSE IF KeyLess(r, Head(sorted)) THEN <<r>> \o sorted
    ELSE <<Head(sorted)>> \o Insert(Tail(sorted), r)

RECURSIVE SortRuns(_)
SortRuns(l) ==
    IF l = <<>> THEN <<>>
    ELSE Insert(SortRuns(SubSeq(l, 1, Len(l) - 1)), l[Len(l)])

\* list(find_crash_files(log_file)); the trees of the model hold one crash
\* file at most in a directory, so there is one listing
CrashListing(tree, log_file) ==
    CHOOSE l \in Listings(find_crash_files(tree, log_file)) : TRUE

\* CpacRunCollection.__init__ for one listing order of each glob
BuildRuns(tree, files_fts, files_log, listed_log) ==
    SortRuns(
        [k \in 1..Len(listed_log) |->
            from_log_file(tree, listed_log[k], CrashListing(tree, listed_log[k]))]
        \o
        LET kept == runs_failed_to_start(files_fts, files_log) IN
        [k \in 1..Len(kept) |-> from_failed_to_start_file(kept[k])])

-----------------------------------------------------------------------------
(* utils: the link of a heading *)

Lower(c) ==
    CASE c = "B" -> "b" [] c = "F" -> "f" [] c = "N" -> "n"
      [] c = "S" -> "s" [] c = "T" -> "t" [] OTHER -> c

\* the characters [0-9a-z_-] of the alphabet
LegalChars ==
    {"1", "2", "3", "_", "-", "a", "b", "c", "d", "e", "f", "g", "h", "i", "l",
     "n", "o", "p", "r", "s", "t", "x", "y"}

\* _RX_MARKDOWN_HEADING_ID_LEGAL_CHARS.sub("", heading.lower())
markdown_heading_to_id(heading) ==
    SelectSeq([k \in 1..Len(heading) |-> Lower(heading[k])], LAMBDA c : c \in LegalChars)

\* markdown_heading_to_link(heading): f"[{title}](#{id})" with title = heading
markdown_heading_to_link(heading) ==
    [title |-> heading, id |-> markdown_heading_to_id(heading)]

\* a str.format of an optional string: None prints as "None"
Format(o) == IF IsNone(o) THEN S_None ELSE Get(o)

\* report_md: pipeline_config.fillna(file.apply(str)), then the link
OverviewName(r) == IF IsNone(r.pipeline_config) THEN FileStr(r.file) ELSE Get(r.pipeline_config)

OverviewRow(r) ==
    [pipeline_config |-> markdown_heading_to_link(OverviewName(r)),
     duration |-> r.diff, success |-> r.success]

\* md_report: TEMPLATE_ENTRY_MD.format(file=self.pipeline_config, ...), and the
\* tail of the log for a run that did not succeed
DetailSection(r) ==
    [heading |-> Format(r.pipeline_config), pipeline_config |-> r.pipeline_config,
     crashfiles |-> IF IsNone(r.crashfiles) THEN <<>> ELSE Get(r.crashfiles),
     logfile_tail |-> ~r.success]

\* report_md(include_gen192_table=False) of a collection with runs
ReportOf(rs) ==
    LET durations == {Get(rs[k].diff) : k \in {j \in 1..Len(rs) : ~IsNone(rs[j].diff)}} IN
    [overview |-> [k \in 1..Len(rs) |-> OverviewRow(rs[k])],
     details |-> [k \in 1..Len(rs) |-> DetailSection(rs[k])],
     n_runs |-> Len(rs),
     n_success |-> Cardinality({k \in 1..Len(rs) : rs[k].success}),
     slowest |-> IF durations = {} THEN None ELSE Some(MaxOf(durations))]

-----------------------------------------------------------------------------
(* Spec: main on a directory tree: CpacRunCollection(root, root), then     *)
(* report_md.                                                              *)

Log_ok ==
    <<Line("ts", 1, <<>>), Line("cmd", 0, Cmd_pre), Line("pcfg", 0, S_Foo),
      Line("succ", 0, <<>>), Line("ts", 2, <<>>)>>
Log_err ==
    <<Line("ts", 2, <<>>), Line("cmd", 0, Cmd_pre), Line("ts", 0, <<>>),
      Line("err", 0, <<>>), Line("lookup", 1, <<>>)>>
Log_bare == <<Line("other", 0, <<>>)>>
Log_test == <<Line("cmd", 0, Cmd_test), Line("succ_tc", 0, <<>>)>>
Log_blank_config == <<Line("pcfg", 0, <<>>), Line("succ", 0, <<>>)>>
LogContents == {Log_ok, Log_err, Log_bare, Log_test, Log_blank_config}

\* the files a tree may hold
LogPaths == {<<D_a, N_log>>, <<D_a, N_log2>>, <<D_B, D_l, N_log>>}
OtherPaths ==
    {<<D_a, S_failedToStart>>, <<D_B, S_failedToStart>>, <<D_B, D_l, S_failedToStart>>,
     <<N_crash>>}

Trees ==
    UNION {[logs \cup others -> LogContents \cup {<<>>}] :
              logs \in SUBSET LogPaths, others \in SUBSET OtherPaths}

WellFormed(tree) ==
    \A f \in DOMAIN tree : (f \in LogPaths) = (tree[f] # <<>>)

Init ==
    /\ fs \in {t \in Trees : WellFormed(t)}
    /\ runs = <<>>
    /\ report = None
    /\ cpc = "init"
    /\ ScanIdle
    /\ UniqIdle

\* CpacRunCollection.__init__
Construct ==
    /\ cpc = "init"
    /\ \E files_fts \in Listings(find_failed_to_start_files(fs)) :
       \E listed_log \in Listings(find_log_files(fs)) :
          runs' = BuildRuns(fs, files_fts, find_log_files(fs), listed_log)
    /\ cpc' = "built"
    /\ UNCHANGED <<fs, report, scan_vars, uniq_vars>>

\* report_md on a collection with runs
ReportMd ==
    /\ cpc = "built"
    /\ runs # <<>>
    /\ report' = Some(ReportOf(runs))
    /\ cpc' = "reported"
    /\ UNCHANGED <<fs, runs, scan_vars, uniq_vars>>

\* report_md on an empty collection: the frame of no records has no column
\* "success", and the lookup raises
ReportMdRaises ==
    /\ cpc = "built"
    /\ runs = <<>>
    /\ cpc' = "raised"
    /\ UNCHANGED <<fs, runs, report, scan_vars, uniq_vars>>

Next == Construct \/ ReportMd \/ ReportMdRaises

Spec == Init /\ [][Next]_vars

-----------------------------------------------------------------------------
(* The collection, read off the tree *)

Constructed == cpc \in {"built", "reported", "raised"}

RecordsOf(f) == {k \in 1..Len(runs) : runs[k].file = f}

Superseded(f) == \E f2 \in find_log_files(fs) : Parent(f2) = Parent(f)

Surviving == {f \in find_failed_to_start_files(fs) : ~Superseded(f)}

\* C3 as stated: every record of the constructed collection, from a log file
\* or from a failed-to-start file, has pipeline_config set.
C3_EveryRecordNamed ==
    Constructed => \A k \in 1..Len(runs) : ~IsNone(runs[k].pipeline_config)

\* C3 as the code has it: every record of the constructed collection that
\* comes from a log file has pipeline_config set; a record that comes from a
\* failed-to-start file has none.
C3_LogRecordsNamed ==
    Constructed =>
        \A k \in 1..Len(runs) :
            IF IsLogName(Name(runs[k].file))
            THEN ~IsNone(runs[k].pipeline_config)
            ELSE IsNone(runs[k].pipeline_config)

\* a collection with a record of a log that names no configuration (it has
\* the relative path) and a record of a failed-to-start file
C3_Witness ==
    /\ Constructed
    /\ \E k \in 1..Len(runs) :
          /\ IsLogName(Name(runs[k].file))
          /\ runs[k].pipeline_config = Some(RelativeStr(runs[k].file))
    /\ \E k \in 1..Len(runs) : Name(runs[k].file) = S_failedToStart

\* C8: the constructed collection holds one record for each log file found,
\* one for each failed-to-start file whose directory holds no log file found,
\* none for a failed-to-start file whose directory holds one, and no other.
C8_OneRecordPerFile ==
    Constructed =>
        /\ \A f \in find_log_files(fs) : Cardinality(RecordsOf(f)) = 1
        /\ \A f \in Surviving : Cardinality(RecordsOf(f)) = 1
        /\ \A f \in find_failed_to_start_files(fs) : Superseded(f) => RecordsOf(f) = {}
        /\ Len(runs) = Cardinality(find_log_files(fs)) + Cardinality(Surviving)

\* a collection of a tree with a failed-to-start file beside a log file and
\* one in a directory without a log file
C8_Witness ==
    /\ Constructed
    /\ \E f \in find_failed_to_start_files(fs) : Superseded(f)
    /\ Surviving # {}
    /\ Cardinality(find_log_files(fs)) >= 2

\* C10: for every run of the collection the link target of its overview row
\* is the sanitising transform of the heading of its detail section.
C10_LinkMatchesHeading ==
    cpc = "reported" =>
        \A k \in 1..Len(runs) :
            Get(report).overview[k].pipeline_config.id
                = markdown_heading_to_id(Get(report).details[k].heading)

====
